---- MODULE Spec2Model ----
(***************************************************************************)
(* Elevator dispatch and scheduling core of ElevatorSystem/elevator_system *)
(* .py: the zone classifier, the elevator car, the three scheduling        *)
(* algorithms, the dispatcher's request queue and the elevator system.     *)
(***************************************************************************)
EXTENDS Integers, Sequences, FiniteSets, TLC

VARIABLES
  total_floors,    \* ElevatorSystem.total_floors
  algorithm,       \* Dispatcher.scheduling_algorithm: "FCFS", "SSTF" or "SCAN"
  elevators,       \* Dispatcher.elevators: sequence of cars, in fleet order
  request_queue,   \* Dispatcher.request_queue
  submitted,       \* history: the Request objects created so far, in order
  dispatched,      \* history: every "Dispatching elevator ..." so far, in order
  round,           \* history: the last addRequest call (queue at loop entry, attempts)
  call             \* the last direct call of a pure function and its result

vars == <<total_floors, algorithm, elevators, request_queue, submitted,
          dispatched, round, call>>

----------------------------------------------------------------------------
(* Bounds and input sets *)

MaxSubmits == 3
MaxCars == 3
MaxFloor == 12
MaxTotal == 9

\* ElevatorSystem(total_floors = ...): the building sizes tried
TotalFloorsChoices == {100, 200}
\* ElevatorSystem(num_elevators = ...): the fleet sizes tried
NumElevatorsChoices == {1, 2, 4}
\* callElevator(floor, direction): the requests submitted to the system
RequestInputs ==
  {<<40, "UP">>, <<60, "DOWN">>, <<95, "UP">>, <<95, "DOWN">>, <<150, "DOWN">>,
   <<160, "UP">>}
\* direct calls of schedule: the cars' zones and floors, the requests' floors
\* (BOTTOM cars at any of the floors in any state, and an idle MIDDLE car)
SchedCarFloors == {3, 5, 7, 12}
SchedOtherZoneFloors == {9}
SchedRequestFloors == {3, 8, 9, 60}
Algorithms == {"FCFS", "SSTF", "SCAN"}
Directions == {"UP", "DOWN"}
States == {"UP", "DOWN", "IDLE"}
Zones == {"BOTTOM", "MIDDLE", "TOP"}

\* the result of schedule when no car is returned (Python None); cars are
\* referred to by their position 1..Len(elevators) in the fleet
None == 0

NoRound == [entry |-> <<>>, attempts |-> <<>>]
NoCall == [fn |-> "none", args |-> <<>>, fleet |-> <<>>, result |-> None]

----------------------------------------------------------------------------
(* getZoneForFloor: floor > total_floors * 0.75 and floor <= total_floors * *)
(* 0.25 are float comparisons; 0.75 and 0.25 are exact binary fractions,   *)
(* so they are the integer comparisons 4*floor > 3*total_floors and        *)
(* 4*floor <= total_floors.                                                *)

DefaultTotalFloors == 200
DefaultStrategy == "TOP_MIDDLE_BOTTOM"

\* faulty variant: the 75% boundary itself classified TOP
getZoneForFloor_inclusiveTop(floor, tf, strategy) ==
  IF strategy = "TOP_MIDDLE_BOTTOM"
    THEN IF 4 * floor >= 3 * tf THEN "TOP"
         ELSE IF 4 * floor <= tf THEN "BOTTOM"
         ELSE "MIDDLE"
    ELSE IF strategy = "ODD_EVEN"
      THEN IF floor % 2 = 1 THEN "ODD" ELSE "EVEN"
      ELSE "DEFAULT"

getZoneForFloor(floor, tf, strategy) ==
  IF strategy = "TOP_MIDDLE_BOTTOM"
    THEN IF 4 * floor > 3 * tf THEN "TOP"
         ELSE IF 4 * floor <= tf THEN "BOTTOM"
         ELSE "MIDDLE"
    ELSE IF strategy = "ODD_EVEN"
      THEN IF floor % 2 = 1 THEN "ODD" ELSE "EVEN"
      ELSE "DEFAULT"

----------------------------------------------------------------------------
(* ElevatorCar *)

ElevatorCar(id, zone) ==
  [id |-> id, current_floor |-> 0, state |-> "IDLE", door_open |-> FALSE,
   zone |-> zone]

openDoor(e) == [e EXCEPT !.door_open = TRUE]

closeDoor(e) == [e EXCEPT !.door_open = FALSE]

\* faulty variant: a move to the car's own floor counts as a move up
moveToSteps_tieUp(e, floor) ==
  LET s1 == [e EXCEPT !.state = IF floor >= e.current_floor THEN "UP" ELSE "DOWN"]
      s2 == [s1 EXCEPT !.current_floor = floor]
      s3 == [s2 EXCEPT !.state = "IDLE"]
  IN <<s1, s2, s3, openDoor(s3)>>

\* the car after each of the four statements of moveTo (lines 76-79)
moveToSteps(e, floor) ==
  LET s1 == [e EXCEPT !.state = IF floor > e.current_floor THEN "UP" ELSE "DOWN"]
      s2 == [s1 EXCEPT !.current_floor = floor]
      s3 == [s2 EXCEPT !.state = "IDLE"]
  IN <<s1, s2, s3, openDoor(s3)>>

\* faulty variant: the car is not set back to IDLE after the move
moveTo_staysMoving(e, floor) == openDoor(moveToSteps(e, floor)[2])

\* faulty variant: the car takes the zone of the floor it moved to
moveTo_rezones(e, floor) ==
  [moveToSteps(e, floor)[4] EXCEPT
     !.zone = getZoneForFloor(floor, total_floors, DefaultStrategy)]

\* faulty variant: the door is left as it was
moveTo_doorUntouched(e, floor) == moveToSteps(e, floor)[3]

moveTo(e, floor) == moveToSteps(e, floor)[4]

\* faulty variant: the stop also opens the door
emergencyStop_opensDoor(e) == openDoor([e EXCEPT !.state = "IDLE"])

emergencyStop(e) == [e EXCEPT !.state = "IDLE"]

zoneMatches(e, floor, tf, strategy) ==
  e.zone = getZoneForFloor(floor, tf, strategy)

\* faulty variant: the floor is classified with the system's floor count
zoneMatchesRequest_systemFloors(e, request) ==
  zoneMatches(e, request.floor, total_floors, DefaultStrategy)

\* elevator.zoneMatches(request.floor): the call every algorithm makes, with
\* the default total_floors and strategy
zoneMatchesRequest(e, request) ==
  zoneMatches(e, request.floor, DefaultTotalFloors, DefaultStrategy)

Request(id, floor, direction) ==
  [id |-> id, floor |-> floor, direction |-> direction]
----------------------------------------------------------------------------
(* Scheduling algorithms.  schedule(request, elevators) returns the        *)
(* position of the chosen car in the fleet, or None.                       *)

Abs(x) == IF x < 0 THEN -x ELSE x

\* key = lambda e: abs(e.current_floor - request.floor)
distance(e, request) == Abs(e.current_floor - request.floor)

Indices(elevs) == [i \in 1..Len(elevs) |-> i]

RECURSIVE minFrom(_, _, _, _)
minFrom(best, rest, elevs, request) ==
  IF rest = <<>> THEN best
  ELSE LET item == Head(rest)
           nb == IF distance(elevs[item], request) < distance(elevs[best], request)
                   THEN item ELSE best
       IN minFrom(nb, Tail(rest), elevs, request)

\* faulty variant of min: a later car at equal distance replaces the best
RECURSIVE minFromLast(_, _, _, _)
minFromLast(best, rest, elevs, request) ==
  IF rest = <<>> THEN best
  ELSE LET item == Head(rest)
           nb == IF distance(elevs[item], request) <= distance(elevs[best], request)
                   THEN item ELSE best
       IN minFromLast(nb, Tail(rest), elevs, request)

minByDistance_lastWins(eligible, elevs, request) ==
  minFromLast(Head(eligible), Tail(eligible), elevs, request)

\* min(eligible_elevators, key = ...): the first car of minimal key
minByDistance(eligible, elevs, request) ==
  minFrom(Head(eligible), Tail(eligible), elevs, request)

RECURSIVE firstIdleMatch(_, _, _)
firstIdleMatch(i, request, elevs) ==
  IF i > Len(elevs) THEN None
  ELSE IF elevs[i].state = "IDLE" /\ zoneMatchesRequest(elevs[i], request)
    THEN i
    ELSE firstIdleMatch(i + 1, request, elevs)

\* faulty variant: the nearest idle matching car instead of the first
FCFSAlgorithm_nearest(request, elevs) ==
  LET eligible == SelectSeq(Indices(elevs),
                    LAMBDA i : elevs[i].state = "IDLE"
                               /\ zoneMatchesRequest(elevs[i], request))
  IN IF eligible = <<>> THEN None
     ELSE minByDistance(eligible, elevs, request)

FCFSAlgorithm_schedule(request, elevs) == firstIdleMatch(1, request, elevs)

SSTFAlgorithm_schedule(request, elevs) ==
  LET eligible_elevators ==
        SelectSeq(Indices(elevs),
                  LAMBDA i : elevs[i].state = "IDLE"
                             /\ zoneMatchesRequest(elevs[i], request))
  IN IF eligible_elevators = <<>> THEN None
     ELSE minByDistance(eligible_elevators, elevs, request)

\* faulty variant: a car moving in the request's direction is admitted even
\* when it has passed the request floor
SCANAdmits_noPassedCheck(e, request) ==
  \/ e.state = "IDLE"
  \/ e.state = request.direction

\* the condition of lines 131-134 on a zone-matching car
SCANAdmits(e, request) ==
  \/ e.state = "IDLE"
  \/ /\ e.state = request.direction
     /\ \/ request.direction = "UP" /\ e.current_floor <= request.floor
        \/ request.direction = "DOWN" /\ e.current_floor >= request.floor

SCANAlgorithm_schedule(request, elevs) ==
  LET eligible_elevators ==
        SelectSeq(Indices(elevs),
                  LAMBDA i : zoneMatchesRequest(elevs[i], request)
                             /\ SCANAdmits(elevs[i], request))
  IN IF eligible_elevators = <<>> THEN None
     ELSE minByDistance(eligible_elevators, elevs, request)

\* scheduling_algorithm.schedule(request, elevators): dynamic dispatch
schedule(alg, request, elevs) ==
  CASE alg = "FCFS" -> FCFSAlgorithm_schedule(request, elevs)
    [] alg = "SSTF" -> SSTFAlgorithm_schedule(request, elevs)
    [] alg = "SCAN" -> SCANAlgorithm_schedule(request, elevs)

----------------------------------------------------------------------------
(* Dispatcher.  dispatch is the while loop of lines 154-163; log collects   *)
(* one entry per scheduling attempt of the loop.                           *)

RECURSIVE dispatchLoop(_, _, _, _)
dispatchLoop(alg, queue, elevs, log) ==
  IF queue = <<>>
    THEN [request_queue |-> queue, elevators |-> elevs, log |-> log]
    ELSE LET request == Head(queue)
             popped == Tail(queue)
             elevator == schedule(alg, request, elevs)
         IN IF elevator # None
              THEN dispatchLoop(alg, popped,
                     [elevs EXCEPT ![elevator] = moveTo(@, request.floor)],
                     Append(log, [request |-> request, elevator |-> elevator]))
              ELSE [request_queue |-> Append(popped, request),
                    elevators |-> elevs,
                    log |-> Append(log, [request |-> request, elevator |-> None])]

\* faulty variant: a failed request is re-queued and the loop goes on to the next
\* request (each request of the queue tried once)
RECURSIVE dispatchSkip(_, _, _, _, _)
dispatchSkip(alg, queue, elevs, log, fuel) ==
  IF queue = <<>> \/ fuel = 0
    THEN [request_queue |-> queue, elevators |-> elevs, log |-> log]
    ELSE LET request == Head(queue)
             popped == Tail(queue)
             elevator == schedule(alg, request, elevs)
         IN IF elevator # None
              THEN dispatchSkip(alg, popped,
                     [elevs EXCEPT ![elevator] = moveTo(@, request.floor)],
                     Append(log, [request |-> request, elevator |-> elevator]),
                     fuel - 1)
              ELSE dispatchSkip(alg, Append(popped, request), elevs,
                     Append(log, [request |-> request, elevator |-> None]),
                     fuel - 1)

dispatch_noBreak(alg, queue, elevs) ==
  dispatchSkip(alg, queue, elevs, <<>>, Len(queue))

\* faulty variant: a failed request is dropped instead of re-queued
dispatch_dropFailed(alg, queue, elevs) ==
  LET r == dispatchLoop(alg, queue, elevs, <<>>)
  IN IF r.log # <<>> /\ r.log[Len(r.log)].elevator = None
       THEN [r EXCEPT !.request_queue = SubSeq(@, 1, Len(@) - 1)]
       ELSE r

\* faulty variant: the loop goes on after a failure for one more attempt than
\* the queue holds, so a re-queued request is tried again in the same round
dispatch_retry(alg, queue, elevs) ==
  dispatchSkip(alg, queue, elevs, <<>>, Len(queue) + 1)

dispatch(alg, queue, elevs) == dispatchLoop(alg, queue, elevs, <<>>)

\* addRequest: append, then dispatch
addRequest(alg, queue, elevs, request) ==
  dispatch(alg, Append(queue, request), elevs)

----------------------------------------------------------------------------
(* ElevatorSystem *)

\* faulty variant: the zone boundaries are inclusive
RECURSIVE createLoop_inclusive(_, _, _)
createLoop_inclusive(i, num_elevators, acc) ==
  IF i >= num_elevators THEN acc
  ELSE LET zone == IF 4 * i <= num_elevators THEN "BOTTOM"
                   ELSE IF 4 * i <= 3 * num_elevators THEN "MIDDLE"
                   ELSE "TOP"
       IN createLoop_inclusive(i + 1, num_elevators,
                               Append(acc, ElevatorCar(i, zone)))

RECURSIVE createLoop(_, _, _)
createLoop(i, num_elevators, acc) ==
  IF i >= num_elevators THEN acc
  ELSE LET zone == IF 4 * i < num_elevators THEN "BOTTOM"
                   ELSE IF 4 * i < 3 * num_elevators THEN "MIDDLE"
                   ELSE "TOP"
       IN createLoop(i + 1, num_elevators, Append(acc, ElevatorCar(i, zone)))

createElevators(num_elevators) == createLoop(0, num_elevators, <<>>)

\* faulty variant: the id is taken as a position counted from 1
emergencyAlarm_offByOne(elevs, elevator_id) ==
  [i \in 1..Len(elevs) |->
     IF elevs[i].id + 1 = elevator_id THEN emergencyStop(elevs[i]) ELSE elevs[i]]

\* emergencyAlarm: every car whose id is elevator_id is stopped
emergencyAlarm(elevs, elevator_id) ==
  [i \in 1..Len(elevs) |->
     IF elevs[i].id = elevator_id THEN emergencyStop(elevs[i]) ELSE elevs[i]]

----------------------------------------------------------------------------
(* The elevator system: construction and its operations *)

Init ==
  /\ total_floors \in TotalFloorsChoices
  /\ algorithm \in Algorithms
  /\ \E n \in NumElevatorsChoices : elevators = createElevators(n)
  /\ request_queue = <<>>
  /\ submitted = <<>>
  /\ dispatched = <<>>
  /\ round = NoRound
  /\ call = NoCall

\* ElevatorSystem.callElevator(floor, direction)
callElevator(floor, direction) ==
  /\ LET request == Request(Len(submitted) + 1, floor, direction)
         r == addRequest(algorithm, request_queue, elevators, request)
     IN /\ request_queue' = r.request_queue
        /\ elevators' = r.elevators
        /\ dispatched' = dispatched \o SelectSeq(r.log, LAMBDA a : a.elevator # None)
        /\ round' = [entry |-> Append(request_queue, request), attempts |-> r.log]
        /\ submitted' = Append(submitted, request)
  /\ UNCHANGED <<total_floors, algorithm, call>>

\* callElevator, for at most MaxSubmits submissions
CallElevator(floor, direction) ==
  /\ Len(submitted) < MaxSubmits
  /\ callElevator(floor, direction)

\* ElevatorSystem.emergencyAlarm(elevator_id)
EmergencyAlarm(elevator_id) ==
  /\ elevators' = emergencyAlarm(elevators, elevator_id)
  /\ UNCHANGED <<total_floors, algorithm, request_queue, submitted, dispatched,
                 round, call>>

\* elevators[i].openDoor()
OpenDoor(i) ==
  /\ elevators' = [elevators EXCEPT ![i] = openDoor(@)]
  /\ UNCHANGED <<total_floors, algorithm, request_queue, submitted, dispatched,
                 round, call>>

\* elevators[i].closeDoor()
CloseDoor(i) ==
  /\ elevators' = [elevators EXCEPT ![i] = closeDoor(@)]
  /\ UNCHANGED <<total_floors, algorithm, request_queue, submitted, dispatched,
                 round, call>>

Next ==
  \/ \E in \in RequestInputs : CallElevator(in[1], in[2])
  \/ \E id \in 0..Len(elevators) : EmergencyAlarm(id)
  \/ \E i \in 1..Len(elevators) : OpenDoor(i)
  \/ \E i \in 1..Len(elevators) : CloseDoor(i)

Spec == Init /\ [][Next]_vars
----------------------------------------------------------------------------
(* The scenario fleet: a Dispatcher built over four cars zoned             *)
(* [BOTTOM, BOTTOM, MIDDLE, TOP] standing at floors [1, 1, 50, 90] in a    *)
(* 100-floor building, with SSTF.                                          *)

ScenarioZones == <<"BOTTOM", "BOTTOM", "MIDDLE", "TOP">>
ScenarioFloors == <<1, 1, 50, 90>>
ScenarioFleet ==
  [i \in 1..Len(ScenarioZones) |->
     [ElevatorCar(i - 1, ScenarioZones[i]) EXCEPT !.current_floor = ScenarioFloors[i]]]

InitE2E ==
  /\ total_floors = 100
  /\ algorithm = "SSTF"
  /\ elevators = ScenarioFleet
  /\ request_queue = <<>>
  /\ submitted = <<>>
  /\ dispatched = <<>>
  /\ round = NoRound
  /\ call = NoCall

SpecE2E == InitE2E /\ [][Next]_vars

----------------------------------------------------------------------------
(* Direct calls of schedule(request, elevators) on an arbitrary fleet: the *)
(* cars' attributes are public, so any floor, state and zone can be given. *)

SchedCars ==
  [id : {0}, current_floor : SchedCarFloors, state : States,
   door_open : {FALSE}, zone : {"BOTTOM"}]
  \cup
  [id : {0}, current_floor : SchedOtherZoneFloors, state : {"IDLE"},
   door_open : {FALSE}, zone : {"MIDDLE"}]

\* the fleets of n such cars, with ids 0..n-1
SchedFleets(n) ==
  {[i \in 1..n |-> [f[i] EXCEPT !.id = i - 1]] : f \in [1..n -> SchedCars]}

InitSchedule ==
  /\ total_floors = DefaultTotalFloors
  /\ algorithm \in Algorithms
  /\ \E n \in 1..MaxCars : elevators \in SchedFleets(n)
  /\ request_queue = <<>>
  /\ submitted = <<>>
  /\ dispatched = <<>>
  /\ round = NoRound
  /\ call = NoCall

\* faulty variant: the chosen car is marked as moving in the request's
\* direction by the call
scheduleCall_marksChosen(alg, request, elevs) ==
  LET r == schedule(alg, request, elevs)
  IN [result |-> r,
      elevators |-> IF r = None THEN elevs
                    ELSE [elevs EXCEPT ![r].state = request.direction]]

\* a call of schedule: what it returns and the list it was given as the call
\* leaves it (lines 108-138 assign to no car and not to the list)
scheduleCall(alg, request, elevs) ==
  [result |-> schedule(alg, request, elevs), elevators |-> elevs]

\* scheduling_algorithm.schedule(Request(floor, direction), elevators)
ApplySchedule(floor, direction) ==
  /\ LET r == scheduleCall(algorithm, Request(0, floor, direction), elevators)
     IN /\ call' = [fn |-> algorithm,
                    args |-> Request(0, floor, direction),
                    fleet |-> elevators,
                    result |-> r.result]
        /\ elevators' = r.elevators
  /\ UNCHANGED <<total_floors, algorithm, request_queue, submitted,
                 dispatched, round>>

NextSchedule ==
  \E f \in SchedRequestFloors, d \in Directions : ApplySchedule(f, d)

SpecSchedule == InitSchedule /\ [][NextSchedule]_vars

----------------------------------------------------------------------------
(* Direct calls of getZoneForFloor(floor, total_floors) *)

InitZone ==
  /\ total_floors = DefaultTotalFloors
  /\ algorithm = "FCFS"
  /\ elevators = <<>>
  /\ request_queue = <<>>
  /\ submitted = <<>>
  /\ dispatched = <<>>
  /\ round = NoRound
  /\ call = NoCall

ApplyZone(floor, tf) ==
  /\ call' = [fn |-> "getZoneForFloor",
              args |-> <<floor, tf>>,
              fleet |-> <<>>,
              result |-> getZoneForFloor(floor, tf, DefaultStrategy)]
  /\ UNCHANGED <<total_floors, algorithm, elevators, request_queue, submitted,
                 dispatched, round>>

NextZone ==
  \E f \in -2..MaxFloor, tf \in 1..MaxTotal : ApplyZone(f, tf)

SpecZone == InitZone /\ [][NextZone]_vars
-----------------------------------------------------------------------------
(* Construction of systems: ElevatorSystem(total_floors, num_elevators,
   scheduling_algorithm), which builds the fleet with createElevators *)

MaxElevators == 20

\* no system constructed yet
InitBuild ==
  /\ total_floors = DefaultTotalFloors
  /\ algorithm = "FCFS"
  /\ elevators = <<>>
  /\ request_queue = <<>>
  /\ submitted = <<>>
  /\ dispatched = <<>>
  /\ round = NoRound
  /\ call = NoCall

\* ElevatorSystem.__init__: a fresh system replaces the previous one
ElevatorSystemInit(tf, num_elevators, alg) ==
  /\ total_floors' = tf
  /\ elevators' = createElevators(num_elevators)
  /\ algorithm' = alg
  /\ request_queue' = <<>>
  /\ call' = [fn |-> "createElevators",
              args |-> <<num_elevators>>,
              fleet |-> <<>>,
              result |-> elevators']
  /\ UNCHANGED <<submitted, dispatched, round>>

NextBuild ==
  \E tf \in TotalFloorsChoices, n \in 0..MaxElevators, alg \in Algorithms :
    ElevatorSystemInit(tf, n, alg)

SpecBuild == InitBuild /\ [][NextBuild]_vars
-----------------------------------------------------------------------------
(* Longer runs of submissions: systems of 200 or 400 floors with one or two
   cars, requests for a BOTTOM floor, a floor near 200 and a floor near 400
   (only floors the building has) *)

MaxRotationSubmits == 5

RotationTotalFloors == {200, 400}

RotationNumElevators == {1, 2}

RotationInputs == {<<40, "UP">>, <<190, "DOWN">>, <<390, "DOWN">>}

InitRotation ==
  /\ total_floors \in RotationTotalFloors
  /\ algorithm \in Algorithms
  /\ \E n \in RotationNumElevators : elevators = createElevators(n)
  /\ request_queue = <<>>
  /\ submitted = <<>>
  /\ dispatched = <<>>
  /\ round = NoRound
  /\ call = NoCall

RotationCall(floor, direction) ==
  /\ Len(submitted) < MaxRotationSubmits
  /\ floor <= total_floors
  /\ callElevator(floor, direction)

NextRotation ==
  \/ \E in \in RotationInputs : RotationCall(in[1], in[2])
  \/ \E id \in 0..Len(elevators) : EmergencyAlarm(id)
  \/ \E i \in 1..Len(elevators) : OpenDoor(i)
  \/ \E i \in 1..Len(elevators) : CloseDoor(i)

SpecRotation == InitRotation /\ [][NextRotation]_vars
----------------------------------------------------------------------------
(* Helpers of the properties *)

Range(seq) == {seq[i] : i \in 1..Len(seq)}

Count(seq, x) == Cardinality({i \in 1..Len(seq) : seq[i] = x})

\* position of x in seq (x occurs in seq)
Pos(seq, x) == CHOOSE i \in 1..Len(seq) : seq[i] = x

\* the zone of a floor under the system's configured floor count
zoneOf(floor) == getZoneForFloor(floor, total_floors, DefaultStrategy)

DispatchedRequests == [k \in 1..Len(dispatched) |-> dispatched[k].request]

----------------------------------------------------------------------------
\* C1: every car chosen by the configured algorithm for a request has
\* car.zone = zoneOf(request.floor), the zone of the request's floor computed
\* with the system's configured total floor count.
C1_ChosenCarInConfiguredZone ==
  \A k \in 1..Len(dispatched) :
    elevators[dispatched[k].elevator].zone = zoneOf(dispatched[k].request.floor)

\* C2: in the drain of one addRequest call the attempts follow the queue from
\* its head, a failed attempt is the last one of the round, every request
\* behind the failed one stays queued and undispatched, and when the head
\* itself fails no car is relocated at all.
C2_HeadOfLineBlocking ==
  [][ submitted' # submitted =>
        LET entry == round'.entry
            att == round'.attempts
        IN /\ Len(att) >= 1 /\ Len(att) <= Len(entry)
           /\ \A k \in 1..Len(att) : att[k].request = entry[k]
           /\ \A k \in 1..Len(att) :
                att[k].elevator = None =>
                  /\ k = Len(att)
                  /\ \A j \in (k + 1)..Len(entry) :
                       /\ entry[j] \in Range(request_queue')
                       /\ entry[j] \notin Range([i \in 1..Len(dispatched') |->
                                                   dispatched'[i].request])
           /\ att[1].elevator = None =>
                /\ elevators' = elevators
                /\ dispatched' = dispatched
    ]_vars

\* C2 witness: R1 (no car accepts it) was queued before R2 (an idle car
\* accepts it); the round of R2's submit tried R1 only and R2 is still queued.
C2_Witness ==
  /\ Len(round.entry) = 2
  /\ Len(round.attempts) = 1
  /\ round.attempts[1].elevator = None
  /\ round.attempts[1].request = round.entry[1]
  /\ schedule(algorithm, round.entry[2], elevators) # None
  /\ round.entry[2] \in Range(request_queue)
  /\ dispatched = <<>>

\* C3: the requests still queued after a round stand in the same relative
\* order as in the queue the round started from (the old queue followed by
\* the submitted request).
C3_QueueOrderPreserved ==
  \A i, j \in 1..Len(request_queue) :
    i < j => Pos(round.entry, request_queue[i]) < Pos(round.entry, request_queue[j])

\* C4: a submitted request whose floor's zone (under the system's floor
\* count) is the zone of no car of the fleet is still queued and was never
\* dispatched.
C4_NoCarOfZoneNeverDispatched ==
  \A k \in 1..Len(submitted) :
    (\A i \in 1..Len(elevators) : elevators[i].zone # zoneOf(submitted[k].floor))
      => /\ submitted[k] \in Range(request_queue)
         /\ submitted[k] \notin Range(DispatchedRequests)

\* C5: in the scenario, after the single submit of (95, UP) the TOP car
\* (fourth of the fleet, at floor 90) was selected and stands at floor 95,
\* and the other three cars stand where they stood.
C5_ScenarioTopCarServes95 ==
  (Len(submitted) = 1 /\ submitted[1].floor = 95 /\ submitted[1].direction = "UP")
    => /\ dispatched = <<[request |-> submitted[1], elevator |-> 4]>>
       /\ elevators[4].current_floor = 95
       /\ \A i \in 1..3 : elevators[i].current_floor = ScenarioFloors[i]

\* C6: every submitted request is either dispatched exactly once or queued
\* exactly once, never both, never neither; the queue and the dispatch log
\* hold submitted requests only.
C6_ConsumedExactlyOnce ==
  /\ \A k \in 1..Len(submitted) :
       Count(request_queue, submitted[k]) + Count(DispatchedRequests, submitted[k]) = 1
  /\ Range(request_queue) \cup Range(DispatchedRequests) \subseteq Range(submitted)

\* C6 witness: of three submitted requests one was dispatched and two are
\* queued, the queue having been rotated by a failed round.
C6_Witness ==
  /\ Len(submitted) = 3
  /\ Len(dispatched) = 1
  /\ Len(request_queue) = 2
  /\ request_queue[1].id > request_queue[2].id
----------------------------------------------------------------------------
(* Properties of the direct calls *)

\* the cars of fleet fl that are IDLE and pass the zone check for request r
IdleEligible(fl, r) ==
  {i \in 1..Len(fl) : fl[i].state = "IDLE" /\ zoneMatchesRequest(fl[i], r)}

\* i is the car of set E nearest to r's floor, the first in fleet order among
\* the nearest
FirstNearest(i, E, fl, r) ==
  /\ i \in E
  /\ \A j \in E : distance(fl[i], r) <= distance(fl[j], r)
  /\ \A j \in E : distance(fl[j], r) = distance(fl[i], r) => i <= j

\* C7: SSTF returns none when no car is IDLE and zone-eligible, and otherwise
\* an IDLE zone-eligible car at minimal distance from the request floor, the
\* first in fleet order among those at that distance.
C7_SSTFNearestIdle ==
  call.fn = "SSTF" =>
    LET E == IdleEligible(call.fleet, call.args)
    IN IF E = {} THEN call.result = None
       ELSE FirstNearest(call.result, E, call.fleet, call.args)

\* C7 witness: idle eligible cars at floors 3, 7 and 12, a request for floor
\* 9, and the car at floor 7 returned.
C7_Witness ==
  /\ call.fn = "SSTF"
  /\ call.args.floor = 9
  /\ Len(call.fleet) = 3
  /\ IdleEligible(call.fleet, call.args) = {1, 2, 3}
  /\ {call.fleet[i].current_floor : i \in 1..3} = {3, 7, 12}
  /\ call.result # None
  /\ call.fleet[call.result].current_floor = 7

\* the cars SCAN may return according to the claim: zone-eligible, and IDLE or
\* moving in the request's direction without having passed its floor
SCANEligible(fl, r) ==
  {i \in 1..Len(fl) :
     /\ zoneMatchesRequest(fl[i], r)
     /\ \/ fl[i].state = "IDLE"
        \/ fl[i].state = "UP" /\ r.direction = "UP"
             /\ fl[i].current_floor <= r.floor
        \/ fl[i].state = "DOWN" /\ r.direction = "DOWN"
             /\ fl[i].current_floor >= r.floor}

\* C8: SCAN returns the first nearest car among the zone-eligible cars that
\* are IDLE or move in the request's direction and have not passed its floor,
\* and none when there is no such car; a car moving UP at floor 5 alone in the
\* fleet is returned for 8/UP and not for 3/UP; a car moving against the
\* request's direction is never returned.
C8_SCANDirectional ==
  call.fn = "SCAN" =>
    LET fl == call.fleet
        r == call.args
        E == SCANEligible(fl, r)
    IN /\ IF E = {} THEN call.result = None
          ELSE FirstNearest(call.result, E, fl, r)
       /\ call.result # None => fl[call.result].state \in {"IDLE", r.direction}
       /\ (Len(fl) = 1 /\ fl[1].state = "UP" /\ fl[1].current_floor = 5
             /\ fl[1].zone = "BOTTOM" /\ r.direction = "UP")
            => /\ r.floor = 8 => call.result = 1
               /\ r.floor = 3 => call.result = None

\* C8 witness: SCAN returns a car that moves UP below the floor of an UP
\* request although an idle eligible car is in the fleet, farther away.
C8_Witness ==
  /\ call.fn = "SCAN"
  /\ call.args = Request(0, 8, "UP")
  /\ call.result # None
  /\ call.fleet[call.result].state = "UP"
  /\ call.fleet[call.result].current_floor = 5
  /\ IdleEligible(call.fleet, call.args) # {}

\* C9: FCFS returns the first car in fleet order that is IDLE and
\* zone-eligible, whatever the distances, and none iff there is no such car.
C9_FCFSFirstIdle ==
  call.fn = "FCFS" =>
    LET E == IdleEligible(call.fleet, call.args)
    IN /\ call.result = None <=> E = {}
       /\ E # {} => call.result \in E /\ \A j \in E : call.result <= j

\* C9 witness: FCFS returns a car although a later idle eligible car is
\* strictly nearer to the request floor.
C9_Witness ==
  /\ call.fn = "FCFS"
  /\ call.result # None
  /\ \E j \in IdleEligible(call.fleet, call.args) :
       /\ j > call.result
       /\ distance(call.fleet[j], call.args)
            < distance(call.fleet[call.result], call.args)

\* C10: with the percentile strategy zoneOf(f, T) is TOP iff f > 0.75*T
\* (f exceeds the integer part of 3T/4), BOTTOM iff f <= 0.25*T (f is at most
\* the integer part of T/4) and MIDDLE otherwise; the floor exactly at 0.75*T
\* is MIDDLE, the floor exactly at 0.25*T is BOTTOM, floors <= 0 are BOTTOM.
C10_PercentileZones ==
  call.fn = "getZoneForFloor" =>
    LET f == call.args[1]
        T == call.args[2]
        z == call.result
    IN /\ z \in Zones
       /\ z = "TOP" <=> f >= ((3 * T) \div 4) + 1
       /\ z = "BOTTOM" <=> f <= T \div 4
       /\ z = "MIDDLE" <=> (f > T \div 4 /\ f <= (3 * T) \div 4)
       /\ 4 * f = 3 * T => z = "MIDDLE"
       /\ 4 * f = T => z = "BOTTOM"
       /\ f <= 0 => z = "BOTTOM"

\* C10 witness: a floor exactly at 0.75*T classified MIDDLE.
C10_Witness ==
  /\ call.fn = "getZoneForFloor"
  /\ 4 * call.args[1] = 3 * call.args[2]
  /\ call.result = "MIDDLE"
----------------------------------------------------------------------------
(* Direct calls of the operations of the cars of a fleet whose cars stand  *)
(* in any motion state (the attributes of a car are public): moveTo,       *)
(* openDoor, closeDoor, and emergencyAlarm of the system over that fleet.  *)
(* call holds the operation, its arguments and the fleet before it.        *)

CarFleetSizes == {1, 2}
CarFloors == {2, 5}
CarTargetFloors == {2, 5, 8}
CarZones == {"BOTTOM", "MIDDLE"}
\* a request no car of these zones accepts
CarQueues == {<<>>, <<Request(1, 160, "UP")>>}

Cars ==
  [id : {0}, current_floor : CarFloors, state : States, door_open : BOOLEAN,
   zone : CarZones]

CarFleets(n) ==
  {[i \in 1..n |-> [f[i] EXCEPT !.id = i - 1]] : f \in [1..n -> Cars]}

InitCar ==
  /\ total_floors = DefaultTotalFloors
  /\ algorithm \in Algorithms
  /\ \E n \in CarFleetSizes : elevators \in CarFleets(n)
  /\ request_queue \in CarQueues
  /\ submitted = request_queue
  /\ dispatched = <<>>
  /\ round = NoRound
  /\ call = NoCall

\* elevators[i].moveTo(floor); result: the car after each statement
ApplyMoveTo(i, floor) ==
  /\ elevators' = [elevators EXCEPT ![i] = moveTo(@, floor)]
  /\ call' = [fn |-> "moveTo", args |-> <<i, floor>>, fleet |-> elevators,
              result |-> moveToSteps(elevators[i], floor)]
  /\ UNCHANGED <<total_floors, algorithm, request_queue, submitted, dispatched,
                 round>>

\* emergencyAlarm(elevator_id); result: the queue before the call
ApplyEmergencyAlarm(elevator_id) ==
  /\ elevators' = emergencyAlarm(elevators, elevator_id)
  /\ call' = [fn |-> "emergencyAlarm", args |-> <<elevator_id>>,
              fleet |-> elevators, result |-> request_queue]
  /\ UNCHANGED <<total_floors, algorithm, request_queue, submitted, dispatched,
                 round>>

ApplyOpenDoor(i) ==
  /\ elevators' = [elevators EXCEPT ![i] = openDoor(@)]
  /\ call' = [fn |-> "openDoor", args |-> <<i>>, fleet |-> elevators,
              result |-> request_queue]
  /\ UNCHANGED <<total_floors, algorithm, request_queue, submitted, dispatched,
                 round>>

ApplyCloseDoor(i) ==
  /\ elevators' = [elevators EXCEPT ![i] = closeDoor(@)]
  /\ call' = [fn |-> "closeDoor", args |-> <<i>>, fleet |-> elevators,
              result |-> request_queue]
  /\ UNCHANGED <<total_floors, algorithm, request_queue, submitted, dispatched,
                 round>>

NextCar ==
  \/ \E i \in 1..Len(elevators), f \in CarTargetFloors : ApplyMoveTo(i, f)
  \/ \E id \in 0..Len(elevators) : ApplyEmergencyAlarm(id)
  \/ \E i \in 1..Len(elevators) : ApplyOpenDoor(i)
  \/ \E i \in 1..Len(elevators) : ApplyCloseDoor(i)

SpecCar == InitCar /\ [][NextCar]_vars

----------------------------------------------------------------------------
\* C11 as stated: a moveTo to the car's own floor passes through state UP.
C11_EqualFloorMovesUp ==
  (call.fn = "moveTo"
     /\ call.args[2] = call.fleet[call.args[1]].current_floor)
    => call.result[1].state = "UP"

\* C11 as amended: moveTo(f) with f equal to the car's floor leaves the floor
\* unchanged, passes through state DOWN, ends IDLE with the door open; for f
\* above the car's floor the intermediate state is UP, for f below it DOWN.
C11_MoveToIntermediateState ==
  call.fn = "moveTo" =>
    LET i == call.args[1]
        f == call.args[2]
        before == call.fleet[i]
        mid == call.result[1].state
    IN /\ call.result[2].state = mid
       /\ f > before.current_floor => mid = "UP"
       /\ f < before.current_floor => mid = "DOWN"
       /\ f = before.current_floor =>
            /\ mid = "DOWN"
            /\ elevators[i].current_floor = before.current_floor
       /\ elevators[i].current_floor = f
       /\ elevators[i].state = "IDLE"
       /\ elevators[i].door_open

\* C11 witness: a moveTo to the car's own floor was made.
C11_Witness ==
  /\ call.fn = "moveTo"
  /\ call.args[2] = call.fleet[call.args[1]].current_floor
  /\ call.result[1].state = "DOWN"
  /\ elevators[call.args[1]].door_open
\* C12: emergencyAlarm(id) leaves the car of that id IDLE whatever its state
\* was, with its floor, door, zone and id as before; every other car and the
\* request queue are as before.
C12_EmergencyStopFrame ==
  call.fn = "emergencyAlarm" =>
    LET id == call.args[1]
        before == call.fleet
    IN /\ Len(elevators) = Len(before)
       /\ \A i \in 1..Len(before) :
            IF before[i].id = id
              THEN /\ elevators[i].state = "IDLE"
                   /\ elevators[i].current_floor = before[i].current_floor
                   /\ elevators[i].door_open = before[i].door_open
                   /\ elevators[i].zone = before[i].zone
                   /\ elevators[i].id = before[i].id
              ELSE elevators[i] = before[i]
       /\ request_queue = call.result
       /\ submitted = call.result
       /\ dispatched = <<>>

\* C12 witness: a car moving UP with its door closed was stopped while another
\* car keeps moving and a request is queued.
C12_Witness ==
  /\ call.fn = "emergencyAlarm"
  /\ request_queue # <<>>
  /\ \E i, j \in 1..Len(elevators) :
       /\ call.fleet[i].id = call.args[1]
       /\ call.fleet[i].state = "UP"
       /\ ~call.fleet[i].door_open
       /\ elevators[i].state = "IDLE"
       /\ elevators[j].state # "IDLE"

\* C13: emergencyAlarm with an id that no car of the fleet has changes no car
\* and not the queue, so that a submit made after it does what it would have
\* done without it.
C13_UnknownIdNoOp ==
  (call.fn = "emergencyAlarm"
     /\ \A i \in 1..Len(call.fleet) : call.fleet[i].id # call.args[1])
    => /\ elevators = call.fleet
       /\ request_queue = call.result
       /\ \A in \in RequestInputs :
            addRequest(algorithm, request_queue, elevators,
                       Request(Len(submitted) + 1, in[1], in[2]))
              = addRequest(algorithm, call.result, call.fleet,
                           Request(Len(submitted) + 1, in[1], in[2]))

\* C13 witness: the alarm was raised for an unknown id while a car was moving
\* and a request was queued.
C13_Witness ==
  /\ call.fn = "emergencyAlarm"
  /\ \A i \in 1..Len(call.fleet) : call.fleet[i].id # call.args[1]
  /\ \E i \in 1..Len(elevators) : elevators[i].state = "UP"
  /\ request_queue # <<>>
\* C14: a call of schedule leaves every car (floor, state, door, zone, id),
\* the order of the fleet and the queue as they were, and returns none or a
\* car of the fleet it was given.
C14_SchedulePure ==
  call.fn \in Algorithms =>
    /\ elevators = call.fleet
    /\ request_queue = <<>>
    /\ call.result = None \/ call.result \in 1..Len(call.fleet)

\* C14 witness: schedule returned a car of a fleet in which a car is moving.
C14_Witness ==
  /\ call.fn \in Algorithms
  /\ call.result # None
  /\ call.result \in 1..Len(elevators)
  /\ \E i \in 1..Len(elevators) : elevators[i].state # "IDLE"
  /\ elevators = call.fleet
\* C15: no operation of the system (callElevator with its drain and moveTo,
\* emergencyAlarm, openDoor, closeDoor) changes the zone or the id of a car,
\* or the number of cars; every car has one of the three zones.
C15_ZoneAndIdFixed ==
  [][ /\ Len(elevators') = Len(elevators)
      /\ \A i \in 1..Len(elevators) :
           /\ elevators'[i].zone = elevators[i].zone
           /\ elevators'[i].id = elevators[i].id
           /\ elevators'[i].zone \in Zones
    ]_vars

\* C15 witness: a car that was relocated and whose door was closed afterwards
\* has the zone it was built with.
C15_Witness ==
  \E i \in 1..Len(elevators) :
    /\ elevators[i].current_floor # 0
    /\ ~elevators[i].door_open
    /\ elevators[i].zone = createElevators(Len(elevators))[i].zone
    /\ elevators[i].id = i - 1

\* C16: whatever floor count the system was built with, a dispatched car's
\* zone is the zone of the request floor under 200 floors and the percentile
\* strategy: floor 95 goes to MIDDLE cars only, floor 40 to BOTTOM cars only.
C16_ZoneCheckUsesDefaultFloors ==
  \A k \in 1..Len(dispatched) :
    LET f == dispatched[k].request.floor
        z == elevators[dispatched[k].elevator].zone
    IN /\ z = getZoneForFloor(f, 200, "TOP_MIDDLE_BOTTOM")
       /\ f = 95 => z = "MIDDLE"
       /\ f = 40 => z = "BOTTOM"

\* C16 witness: in a system built with 100 floors the requests for floors 95
\* and 40 were dispatched, to a MIDDLE and a BOTTOM car.
C16_Witness ==
  /\ total_floors = 100
  /\ \E k \in 1..Len(dispatched) :
       /\ dispatched[k].request.floor = 95
       /\ elevators[dispatched[k].elevator].zone = "MIDDLE"
  /\ \E k \in 1..Len(dispatched) :
       /\ dispatched[k].request.floor = 40
       /\ elevators[dispatched[k].elevator].zone = "BOTTOM"
\* the fleet after the relocations of the successful attempts att, in order:
\* each matched car stands at its request's floor, IDLE, door open
RECURSIVE RelocateAll(_, _)
RelocateAll(elevs, att) ==
  IF att = <<>> THEN elevs
  ELSE LET a == Head(att)
           next == IF a.elevator = None THEN elevs
                   ELSE [elevs EXCEPT ![a.elevator] =
                           [@ EXCEPT !.current_floor = a.request.floor,
                                     !.state = "IDLE",
                                     !.door_open = TRUE]]
       IN RelocateAll(next, Tail(att))

\* C17: a callElevator step leaves the fleet as its successful matches say:
\* each matched car at the floor of its request, IDLE and with the door open,
\* every other car as it was; no other step changes the floor of a car.
C17_RelocatesExactlyMatchedCar ==
  [][ /\ submitted' # submitted =>
           elevators' = RelocateAll(elevators, round'.attempts)
      /\ \A i \in 1..Len(elevators) :
           elevators'[i].current_floor # elevators[i].current_floor =>
             /\ submitted' # submitted
             /\ \E k \in 1..Len(round'.attempts) :
                  /\ round'.attempts[k].elevator = i
                  /\ elevators'[i].current_floor \in
                       {round'.attempts[j].request.floor :
                          j \in {m \in 1..Len(round'.attempts) :
                                   round'.attempts[m].elevator = i}}
    ]_vars

\* C17 witness: a car was matched and relocated twice, its door being open
\* from the first relocation, and stands at the floor of the later request
\* while another car never moved.
C17_Witness ==
  /\ \E k1, k2 \in 1..Len(dispatched) :
       /\ k1 < k2
       /\ dispatched[k1].elevator = dispatched[k2].elevator
       /\ dispatched[k1].request.floor # dispatched[k2].request.floor
       /\ \A k \in (k2 + 1)..Len(dispatched) :
            dispatched[k].elevator # dispatched[k2].elevator
       /\ elevators[dispatched[k2].elevator].current_floor
            = dispatched[k2].request.floor
       /\ elevators[dispatched[k2].elevator].door_open
       /\ elevators[dispatched[k2].elevator].state = "IDLE"
  /\ \E j \in 1..Len(elevators) :
       elevators[j].current_floor = 0 /\ ~elevators[j].door_open
AllIdle(elevs) == \A i \in 1..Len(elevs) : elevs[i].state = "IDLE"

\* the fleet after the dispatches of the attempts att, as dispatch makes them
RECURSIVE Replay(_, _)
Replay(elevs, att) ==
  IF att = <<>> THEN elevs
  ELSE LET a == Head(att)
           next == IF a.elevator = None THEN elevs
                   ELSE [elevs EXCEPT ![a.elevator] = moveTo(@, a.request.floor)]
       IN Replay(next, Tail(att))

\* C18: every car is IDLE before and after every operation of the system, and
\* at every scheduling decision of a drain round (the fleet as the earlier
\* dispatches of the round left it), so a car is matched again only after its
\* previous relocation has ended in IDLE.
C18_IdleAtEveryDecision ==
  [][ /\ AllIdle(elevators)
      /\ AllIdle(elevators')
      /\ submitted' # submitted =>
           \A k \in 1..Len(round'.attempts) :
             AllIdle(Replay(elevators, SubSeq(round'.attempts, 1, k - 1)))
    ]_vars

\* C18 witness: the same car was matched to two requests, one after the
\* other, and every car is IDLE.
C18_Witness ==
  /\ AllIdle(elevators)
  /\ Len(dispatched) >= 2
  /\ dispatched[1].elevator = dispatched[2].elevator
  /\ round.attempts # <<>>
  /\ round.attempts[1].elevator = dispatched[1].elevator
\* C19: a submit ends after at most as many attempts as the queue held at loop
\* entry; the attempts are the head requests of that queue in order, each once
\* (a failed request is not retried in the round); the round stops at its
\* first failure or when the queue is drained; the queue is at most one longer
\* after the submit than before it.
C19_RoundBounded ==
  [][ submitted' # submitted =>
        LET entry == round'.entry
            att == round'.attempts
            n == Len(att)
        IN /\ entry = Append(request_queue, submitted'[Len(submitted')])
           /\ n >= 1 /\ n <= Len(entry)
           /\ \A k \in 1..n : att[k].request = entry[k]
           /\ \A j, k \in 1..n : j # k => att[j].request.id # att[k].request.id
           /\ \A k \in 1..(n - 1) : att[k].elevator # None
           /\ att[n].elevator # None => n = Len(entry) /\ request_queue' = <<>>
           /\ att[n].elevator = None =>
                request_queue' = Append(SubSeq(entry, n + 1, Len(entry)), entry[n])
           /\ Len(request_queue') <= Len(request_queue) + 1
    ]_vars

\* C19 witness: a round over a queue of three requests that made a successful
\* attempt, stopped at the failure after it and left the third request untried.
C19_Witness ==
  /\ Len(round.entry) = 3
  /\ Len(round.attempts) = 2
  /\ round.attempts[1].elevator # None
  /\ round.attempts[2].elevator = None
  /\ Len(request_queue) = 2
  /\ request_queue[2] = round.attempts[2].request
\* number of cars of a fleet that have the zone z
ZoneCount(elevs, z) == Cardinality({i \in 1..Len(elevs) : elevs[i].zone = z})

\* C20: createElevators(N) returns N cars with the ids 0..N-1 in order, all
\* IDLE with the door closed, the car of index i in BOTTOM for 4i < N, in
\* MIDDLE for N <= 4i < 3N and in TOP otherwise; when 4 divides N there are
\* exactly N/4 BOTTOM, N/2 MIDDLE and N/4 TOP cars.
C20_FleetBuilder ==
  call.fn = "createElevators" =>
    LET N == call.args[1]
        r == call.result
    IN /\ Len(r) = N
       /\ elevators = r
       /\ {r[i].id : i \in 1..N} = 0..(N - 1)
       /\ \A i, j \in 1..N : i # j => r[i].id # r[j].id
       /\ \A i \in 1..N :
            /\ r[i].id = i - 1
            /\ r[i].state = "IDLE"
            /\ ~r[i].door_open
            /\ r[i].zone \in Zones
            /\ r[i].zone = "BOTTOM" <=> 4 * r[i].id < N
            /\ r[i].zone = "MIDDLE" <=> (N <= 4 * r[i].id /\ 4 * r[i].id < 3 * N)
            /\ r[i].zone = "TOP" <=> 3 * N <= 4 * r[i].id
       /\ N % 4 = 0 =>
            /\ 4 * ZoneCount(r, "BOTTOM") = N
            /\ 2 * ZoneCount(r, "MIDDLE") = N
            /\ 4 * ZoneCount(r, "TOP") = N

\* C20 witness: a fleet of 8 cars was built, with 2 BOTTOM, 4 MIDDLE and 2 TOP
\* cars.
C20_Witness ==
  /\ call.fn = "createElevators"
  /\ call.args[1] = 8
  /\ Len(elevators) = 8
  /\ ZoneCount(elevators, "BOTTOM") = 2
  /\ ZoneCount(elevators, "MIDDLE") = 4
  /\ ZoneCount(elevators, "TOP") = 2
\* the system after the first k submissions: the submissions replayed from
\* the fleet as built (the alarm and the doors change neither a floor, a state
\* nor a zone in the system)
RECURSIVE SystemAfter(_)
SystemAfter(k) ==
  IF k = 0
    THEN [request_queue |-> <<>>,
          elevators |-> createElevators(Len(elevators)),
          log |-> <<>>]
    ELSE LET s == SystemAfter(k - 1)
         IN addRequest(algorithm, s.request_queue, s.elevators, submitted[k])

HasCarOfZone(z) == \E i \in 1..Len(elevators) : elevators[i].zone = z

\* a request that stood at position p of the queue when the k-th submission
\* returned, and whose floor satisfies dispatchable, has been dispatched once
\* p further submissions have returned
ServedByPthSubmit(dispatchable(_)) ==
  LET n == Len(submitted)
  IN /\ SystemAfter(n).request_queue = request_queue
     /\ \A k \in 1..n :
          LET q == SystemAfter(k).request_queue
          IN \A p \in 1..Len(q) :
               (dispatchable(q[p].floor) /\ k + p <= n) =>
                 q[p] \in Range(DispatchedRequests)

\* C21: a queued request whose floor's zone (under the system's floor count)
\* is the zone of some car of the fleet, at position p of the queue when a
\* submission returns, is dispatched by the p-th following submission.
C21_DispatchableServedByPthSubmit ==
  ServedByPthSubmit(LAMBDA f : HasCarOfZone(zoneOf(f)))

\* the same bound for the requests that a car's own zone check (200 floors)
\* accepts
RotationServesOwnZone ==
  ServedByPthSubmit(LAMBDA f :
    HasCarOfZone(getZoneForFloor(f, DefaultTotalFloors, DefaultStrategy)))

\* a request accepted by some car's own zone check stood second in the queue
\* behind a request no car accepts, and was dispatched by the second following
\* submission while the older request is still queued
RotationWitness ==
  /\ Len(submitted) = 5
  /\ LET q == SystemAfter(3).request_queue
     IN /\ Len(q) >= 2
        /\ ~HasCarOfZone(getZoneForFloor(q[1].floor, DefaultTotalFloors, DefaultStrategy))
        /\ HasCarOfZone(getZoneForFloor(q[2].floor, DefaultTotalFloors, DefaultStrategy))
        /\ q[2] \in Range(DispatchedRequests)
        /\ q[1] \in Range(request_queue)
\* the requests the two algorithms are compared on: the next submission, for
\* every submitted floor with either direction
ProbeRequests ==
  {Request(Len(submitted) + 1, in[1], d) : in \in RequestInputs, d \in Directions}

SCANAgreesWithSSTF(elevs) ==
  \A request \in ProbeRequests :
    SCANAlgorithm_schedule(request, elevs) = SSTFAlgorithm_schedule(request, elevs)

\* C22: in every state the system reaches, SCAN and SSTF return the same car
\* (or none) for every request, and the next submission made with SCAN leaves
\* the same cars and the same queue as the same submission made with SSTF, so
\* the runs of the two algorithms on one operation sequence stay in step (the
\* alarm and the door operations do not consult the algorithm).
C22_SCANEqualsSSTF ==
  /\ SCANAgreesWithSSTF(elevators)
  /\ \A request \in ProbeRequests :
       addRequest("SCAN", request_queue, elevators, request)
         = addRequest("SSTF", request_queue, elevators, request)

\* C22 witness: a SCAN system that has relocated a car upwards to floor 40 and
\* holds an unmatched request; a request for floor 60 upwards would be one that
\* SCAN admits a car moving up at floor 40 for.
C22_Witness ==
  /\ algorithm = "SCAN"
  /\ Len(submitted) = MaxSubmits
  /\ request_queue # <<>>
  /\ \E i \in 1..Len(elevators) :
       /\ elevators[i].current_floor = 40
       /\ SCANAdmits([elevators[i] EXCEPT !.state = "UP"], Request(0, 60, "UP"))
  /\ SCANAgreesWithSSTF(elevators)

====
